---------------------------- MODULE Spec2Model ----------------------------
(***************************************************************************)
(* Session state machine of the University of Roehampton chatbot.          *)
(*                                                                         *)
(* One Streamlit session is modelled.  Every user interaction starts a     *)
(* script run (app.py run): the sidebar is processed first, then the       *)
(* screen of the current conversation_step.  A handler that ends in        *)
(* st.rerun() leaves view = "pending"; the following run is the action     *)
(* run, which performs the state-changing part of rendering the screen.    *)
(*                                                                         *)
(* Strings typed by the user are sequences of one-character strings, so    *)
(* that strip(), upper() and int() are computed and not assumed.           *)
(* Python's None is the empty sequence, a set value v is <<v>>.            *)
(***************************************************************************)
EXTENDS Integers, Sequences, FiniteSets, TLC

(***************************************************************************)
(* Bounds of the model                                                     *)
(***************************************************************************)
MaxIdLen == 2
MaxCodeLen == 2
MaxRetry == 1
MaxQuestions == 1
MaxFailures == 1
MaxPromptLen == 2

(***************************************************************************)
(* Option values                                                           *)
(***************************************************************************)
None == <<>>
Some(v) == <<v>>
Val(o) == o[1]

(***************************************************************************)
(* Text typed by the user                                                  *)
(***************************************************************************)
IdChars == {" ", "a", "A", "b"}
CodeChars == {" ", "0", "1", "x"}

StringsUpTo(chars, n) == UNION {[1..k -> chars] : k \in 0..n}

\* every text of bounded length, for the operations on typed text
IdInputs == StringsUpTo(IdChars, MaxIdLen)
CodeInputs == StringsUpTo(CodeChars, MaxCodeLen)

\* the texts typed in the full conversation flow: a blank ID, the ID of
\* each roster row in another letter case or with a space, and for the code
\* a blank, a non-numeric text and the two codes with and without a zero
IdTexts == {<<>>, <<" ", "a">>, <<"a", "B">>, <<"b">>}
CodeTexts == {<<" ">>, <<"x">>, <<"0", "1">>, <<"1", "0">>}

\* str.strip(): leading and trailing whitespace removed
RECURSIVE lstrip(_)
lstrip(s) == IF s = <<>> THEN s
             ELSE IF Head(s) = " " THEN lstrip(Tail(s)) ELSE s

RECURSIVE rstrip(_)
rstrip(s) == IF s = <<>> THEN s
             ELSE IF s[Len(s)] = " " THEN rstrip(SubSeq(s, 1, Len(s) - 1)) ELSE s

\* faulty variant: trailing whitespace is kept
strip_left_only(s) == lstrip(s)

strip(s) == rstrip(lstrip(s))

\* str.upper(), character by character
upper_char(c) == CASE c = "a" -> "A"
                   [] c = "b" -> "B"
                   [] OTHER -> c

upper(s) == [i \in 1..Len(s) |-> upper_char(s[i])]

\* int(text) on an already stripped text: the value, or ValueError
DigitValue(c) == CASE c = "0" -> 0
                   [] c = "1" -> 1
                   [] OTHER -> -1

RECURSIVE digits_value(_)
digits_value(s) == IF s = <<>> THEN 0
                   ELSE 10 * digits_value(SubSeq(s, 1, Len(s) - 1)) + DigitValue(s[Len(s)])

int(s) == IF s # <<>> /\ \A i \in 1..Len(s) : DigitValue(s[i]) >= 0
          THEN [ok |-> TRUE, value |-> digits_value(s)]
          ELSE [ok |-> FALSE, value |-> 0]

(***************************************************************************)
(* localization.py: t(key, **kwargs).  A translated string is identified   *)
(* by its key and format argument (the table it is read from is that of    *)
(* language_manager.current_language at the call); a string that is not    *)
(* looked up has translated = FALSE.                                       *)
(***************************************************************************)
Languages == {"en", "ar", "fr", "es"}

t(key, arg) == [key |-> key, translated |-> TRUE, arg |-> arg]
raw(text) == [key |-> text, translated |-> FALSE, arg |-> <<>>]

(***************************************************************************)
(* database_manager.py: the roster                                         *)
(***************************************************************************)
\* rows of the Excel file: Student ID, Code, Programme, Module, PDF File
RosterRows ==
  << [sid |-> <<"A">>, code |-> 1, programme |-> "P1", module |-> "M1", pdf |-> "m1_coursework1.pdf"],
     [sid |-> <<"A">>, code |-> 1, programme |-> "P1", module |-> "M1", pdf |-> "m1_lecture.pdf"],
     [sid |-> <<"A", "B">>, code |-> 10, programme |-> "P2", module |-> "M2", pdf |-> "m2_notes.pdf"],
     [sid |-> <<"b">>, code |-> 1, programme |-> "P2", module |-> "M3", pdf |-> "m3_exam.pdf"] >>

_extract_coursework_type(pdf) ==
  CASE pdf = "m1_coursework1.pdf" -> "Coursework 1"
    [] pdf = "m1_lecture.pdf" -> "Lecture Notes"
    [] pdf = "m3_exam.pdf" -> "Exam Material"
    [] OTHER -> "Course Materials"

_format_display_name(pdf) ==
  CASE pdf = "m1_coursework1.pdf" -> "M1 Coursework1"
    [] pdf = "m1_lecture.pdf" -> "M1 Lecture"
    [] pdf = "m2_notes.pdf" -> "M2 Notes"
    [] pdf = "m3_exam.pdf" -> "M3 Exam"
    [] OTHER -> pdf

pdf_data(row) == [pdf_file |-> row.pdf,
                  programme |-> row.programme,
                  coursework_type |-> _extract_coursework_type(row.pdf),
                  display_name |-> raw(_format_display_name(row.pdf))]

RowsOf(rows, sid, module) ==
  SelectSeq(rows, LAMBDA r : r.sid = sid /\ r.module = module)

ModulesOf(rows, sid) ==
  [m \in {rows[i].module : i \in {j \in 1..Len(rows) : rows[j].sid = sid}} |->
     [k \in 1..Len(RowsOf(rows, sid, m)) |-> pdf_data(RowsOf(rows, sid, m)[k])]]

FirstRowOf(rows, sid) ==
  rows[CHOOSE i \in 1..Len(rows) :
         rows[i].sid = sid /\ \A j \in 1..(i - 1) : rows[j].sid # sid]

load_student_database(rows) ==
  LET ids == {rows[i].sid : i \in 1..Len(rows)}
  IN [students |-> [s \in ids |-> [code |-> FirstRowOf(rows, s).code,
                                   programme |-> FirstRowOf(rows, s).programme,
                                   modules |-> ModulesOf(rows, s)]],
      student_codes |-> [s \in ids |-> FirstRowOf(rows, s).code],
      student_modules |-> [s \in ids |-> ModulesOf(rows, s)]]

\* st.session_state.student_database once load_database has run
student_database == load_student_database(RosterRows)

\* faulty variant: any numeric code is accepted for a known ID
validate_any_code(db, sid_in, code_in) ==
  LET sid == upper(strip(sid_in))
      code == int(strip(code_in))
  IN IF ~code.ok
       THEN [is_valid |-> FALSE, student_data |-> None, message |-> "Code must be a number"]
     ELSE IF sid \notin DOMAIN db.students
       THEN [is_valid |-> FALSE, student_data |-> None, message |-> "not found"]
     ELSE [is_valid |-> TRUE, student_data |-> Some(db.students[sid]),
           message |-> "Authentication successful"]

validate_student_credentials(db, sid_in, code_in) ==
  LET sid == upper(strip(sid_in))
      code == int(strip(code_in))
  IN IF ~code.ok
       THEN [is_valid |-> FALSE, student_data |-> None, message |-> "Code must be a number"]
     ELSE IF sid \notin DOMAIN db.students
       THEN [is_valid |-> FALSE, student_data |-> None, message |-> "not found"]
     ELSE IF code.value # db.student_codes[sid]
       THEN [is_valid |-> FALSE, student_data |-> None, message |-> "Invalid code"]
     ELSE [is_valid |-> TRUE, student_data |-> Some(db.students[sid]),
           message |-> "Authentication successful"]

get_student_modules(db, sid) ==
  IF sid \in DOMAIN db.student_modules THEN db.student_modules[sid] ELSE <<>>

(***************************************************************************)
(* document_processor.py                                                   *)
(***************************************************************************)
\* readable: the files of the data folder that exist and yield text now
banner(pdf) == [kind |-> "banner", file |-> pdf.pdf_file]
text(file) == [kind |-> "text", file |-> file]

RECURSIVE combined_content(_, _)
combined_content(pdfs, readable) ==
  IF pdfs = <<>> THEN <<>>
  ELSE (IF Head(pdfs).pdf_file \in readable
          THEN <<banner(Head(pdfs)), text(Head(pdfs).pdf_file)>>
          ELSE <<>>) \o combined_content(Tail(pdfs), readable)

RECURSIVE loaded_files(_, _)
loaded_files(pdfs, readable) ==
  IF pdfs = <<>> THEN <<>>
  ELSE (IF Head(pdfs).pdf_file \in readable THEN <<Head(pdfs).pdf_file>> ELSE <<>>)
       \o loaded_files(Tail(pdfs), readable)

\* _read_pdf: the metadata of a file, one distinct triple for each roster row
read_document(file) ==
  LET i == CHOOSE k \in 1..Len(RosterRows) : RosterRows[k].pdf = file
  IN [total_pages |-> i, word_count |-> 10 * i, file_size |-> 100 * i]

\* total_pages += ..., total_words += ..., total_size += ... over the
\* constituents that loaded
RECURSIVE totals(_, _)
totals(pdfs, readable) ==
  IF pdfs = <<>> THEN [total_pages |-> 0, total_words |-> 0, total_size |-> 0]
  ELSE LET rest == totals(Tail(pdfs), readable)
           metadata == read_document(Head(pdfs).pdf_file)
       IN IF Head(pdfs).pdf_file \in readable
            THEN [total_pages |-> metadata.total_pages + rest.total_pages,
                  total_words |-> metadata.word_count + rest.total_words,
                  total_size |-> metadata.file_size + rest.total_size]
            ELSE rest

\* faulty variant: the totals are taken over every constituent
totals_of_all(pdfs, readable) == totals(pdfs, {pdfs[i].pdf_file : i \in 1..Len(pdfs)})

combined_totals(pdfs, readable) == totals(pdfs, readable)

\* metadata keys that a single document does not carry are <<>> and 0
load_document_for_module(module_data, readable) ==
  IF module_data.pdf_file = "multiple"
    THEN [content |-> combined_content(module_data.all_pdfs, readable),
          metadata |-> [file_type |-> "Multiple Documents",
                        loaded_files |-> loaded_files(module_data.all_pdfs, readable),
                        file_count |-> Len(loaded_files(module_data.all_pdfs, readable)),
                        total_pages |-> combined_totals(module_data.all_pdfs, readable).total_pages,
                        total_words |-> combined_totals(module_data.all_pdfs, readable).total_words,
                        total_size |-> combined_totals(module_data.all_pdfs, readable).total_size]]
    ELSE [content |-> IF module_data.pdf_file \in readable
                        THEN <<text(module_data.pdf_file)>> ELSE <<>>,
          metadata |-> [file_type |-> "single", loaded_files |-> <<>>, file_count |-> 0,
                        total_pages |-> IF module_data.pdf_file \in readable
                                          THEN read_document(module_data.pdf_file).total_pages
                                          ELSE 0,
                        total_words |-> 0, total_size |-> 0]]

Files == {RosterRows[i].pdf : i \in 1..Len(RosterRows)}

(***************************************************************************)
(* ai_assistant.py, ethics_handler.py: the completion operations.          *)
(* client: the completion client was constructed; remote: the outcome of   *)
(* the remote call ("empty": a result without choices).                    *)
(***************************************************************************)
RemoteOutcomes == {"ok", "empty", "exception"}
Prompts == {<<"q">>}

\* faulty variant: the failure of the remote call is handed on as it is
completion_unconverted(remote, answer) ==
  CASE remote = "ok" -> raw(answer)
    [] remote = "empty" -> t("no_response_generated", <<>>)
    [] OTHER -> raw(remote)

\* what the remote call turns into, shared by both operations (the try block)
completion(remote, answer) ==
  CASE remote = "ok" -> raw(answer)
    [] remote = "empty" -> t("no_response_generated", <<>>)
    [] OTHER -> t("response_error", <<remote>>)

\* faulty variant: the document is checked before the client
generate_document_first(client, question, document_content, remote) ==
  IF document_content = <<>> THEN t("no_docs_error", <<>>)
  ELSE IF ~client THEN t("api_key_missing", <<>>)
  ELSE IF strip(question) = <<>> THEN t("enter_question", <<>>)
  ELSE completion(remote, "answer")

\* AIAssistant._format_document_info: the files that the system prompt
\* names as the documents of the answer
_format_document_info(module_info) ==
  IF module_info.pdf_file = "multiple"
    THEN [k \in 1..Len(module_info.all_pdfs) |-> module_info.all_pdfs[k].pdf_file]
    ELSE <<module_info.pdf_file>>

\* the system prompt is built once the three preconditions hold
document_info_of(client, question, document_content, module_info) ==
  IF client /\ document_content # <<>> /\ strip(question) # <<>>
    THEN Some(_format_document_info(module_info))
    ELSE None

generate_coursework_response(client, question, document_content, remote) ==
  IF ~client THEN t("api_key_missing", <<>>)
  ELSE IF document_content = <<>> THEN t("no_docs_error", <<>>)
  ELSE IF strip(question) = <<>> THEN t("enter_question", <<>>)
  ELSE completion(remote, "answer")

generate_ethics_response(client, question, document_content, remote) ==
  IF ~client THEN t("api_key_missing", <<>>)
  ELSE IF document_content = <<>> THEN t("no_docs_error", <<>>)
  ELSE IF strip(question) = <<>> THEN t("enter_ethics_question", <<>>)
  ELSE completion(remote, "ethics answer")

(***************************************************************************)
(* audio_manager.py: the speech client returns bytes or None               *)
(***************************************************************************)
AudioOutcomes == {None, Some("mp3")}

\* d[key] = audio on a Python dict held as a set of entries
put(d, key, audio) == {e \in d : e.key # key} \cup {[key |-> key, audio |-> audio]}
keys(d) == {e.key : e \in d}

message_key(msgs, i) == <<i - 1, msgs[i].timestamp>>

\* faulty variant of the audio pass: audio is synthesised and stored again
\* for a message that has an entry
RECURSIVE render_audio_again(_, _, _, _)
render_audio_again(msgs, n, d, outcome) ==
  IF n = 0 THEN d
  ELSE LET before == render_audio_again(msgs, n - 1, d, outcome)
       IN IF msgs[n].role = "assistant" /\ outcome[n] # None
            THEN put(before, message_key(msgs, n), Val(outcome[n]))
            ELSE before

\* the audio pass of a render over messages 1..n: every assistant message
\* without an entry is synthesised, outcome[i] is what the speech client returns
RECURSIVE render_audio(_, _, _, _)
render_audio(msgs, n, d, outcome) ==
  IF n = 0 THEN d
  ELSE LET before == render_audio(msgs, n - 1, d, outcome)
       IN IF msgs[n].role = "assistant"
             /\ message_key(msgs, n) \notin keys(before)
             /\ outcome[n] # None
            THEN put(before, message_key(msgs, n), Val(outcome[n]))
            ELSE before

\* the indices of the assistant messages of a transcript
Assistant(msgs) == {i \in 1..Len(msgs) : msgs[i].role = "assistant"}

\* faulty variant: the speech client is called for every assistant message
synthesis_calls_all(msgs, d, enabled, available) ==
  IF enabled /\ available
    THEN {message_key(msgs, i) : i \in Assistant(msgs)}
    ELSE {}

\* the keys for which the audio pass of a render over msgs calls
\* generate_audio_response, d being the cache before the pass: those of the
\* assistant messages without an entry, when audio is enabled and the
\* audio manager has a client
synthesis_calls(msgs, d, enabled, available) ==
  IF enabled /\ available
    THEN {message_key(msgs, i) : i \in {j \in Assistant(msgs) : message_key(msgs, j) \notin keys(d)}}
    ELSE {}

(***************************************************************************)
(* Session state (session_manager.py initialize_session_state)             *)
(***************************************************************************)
VARIABLES
  conversation_step,       \* 'welcome', 'student_id', 'code', 'module', 'coursework', 'chat', 'ethics_chat'
  student_id,              \* None or the stored ID
  student_code,            \* None or the code text as typed
  student_data,            \* None or the roster record
  selected_path,           \* None, 'ethics' or 'coursework'
  selected_module,         \* None or the selection made at the module step
  selected_coursework,     \* None or the option chosen at the coursework step
  current_document,        \* None or {content, metadata, module}
  messages,                \* coursework transcript
  audio_responses,         \* coursework audio cache
  error_message,           \* None or the message shown at the next render
  retry_count,
  language,
  ethics_document,         \* None or the loaded ethics document
  ethics_messages,         \* ethics transcript (an absent key reads as [])
  ethics_audio_responses,  \* ethics audio cache (an absent key reads as {})
  clock,                   \* number of time.time() readings taken so far
  failures,                \* number of renders that raised so far
  view,                    \* "pending": st.rerun() requested; "screen": the step's
                           \* screen is shown; "error": the error panel is shown
  displayed_error,         \* st.error shown by the handler of this run, if any
  validation,              \* the validate_student_credentials call of this run, if any: arguments and result
  call,                    \* the completion call of this run, if any: arguments and result
  api_key,                 \* OPENAI_API_KEY is set in the environment of the process
  current_language,        \* language_manager.current_language, one object per process
  other_language,          \* st.session_state.language of another session of the process
  about,                   \* the 'About' text of this run: the session's language when
                           \* setup_page_config translated it, and the language it is in
  authenticated,           \* history: a credential check succeeded since the last reset
  last,                    \* history: the operation of the last step
  load,                     \* the load_document_for_module call of this run, if any: arguments and result
  database_loaded,          \* st.session_state.database_loaded
  roster_cache,             \* process: the memoised result of load_student_database, as the index of the file content read
  file_reads,               \* process: how often the roster file was read
  roster_load,              \* the load_student_database call of this run
  speech,                   \* a generate_audio_response call: its text and what it dispatched
  lookup,                   \* a get_text call: the tables, its arguments and its result
  audio_enabled,            \* st.session_state.audio_enabled: the sidebar's checkbox
  synthesized               \* the message keys the speech client was called for in this run

auth_vars == <<student_id, student_code, student_data, selected_path>>
selection_vars == <<selected_module, selected_coursework, current_document>>
chat_vars == <<messages, audio_responses>>
ethics_vars == <<ethics_document, ethics_messages, ethics_audio_responses>>
error_vars == <<error_message, retry_count>>

vars == <<conversation_step, auth_vars, selection_vars, chat_vars, ethics_vars,
          error_vars, language, clock, failures, view, displayed_error, validation,
          authenticated, last, call, api_key, current_language, other_language, about,
          load, database_loaded, roster_cache, file_reads, roster_load, speech, lookup,
          audio_enabled, synthesized>>

Steps == {"welcome", "student_id", "code", "module", "coursework", "chat", "ethics_chat"}

\* initialize_session_state on a session without keys
SessionDefaults ==
  /\ conversation_step = "welcome"
  /\ student_id = None
  /\ student_code = None
  /\ student_data = None
  /\ selected_path = None
  /\ selected_module = None
  /\ selected_coursework = None
  /\ current_document = None
  /\ messages = <<>>
  /\ audio_responses = {}
  /\ error_message = None
  /\ retry_count = 0
  /\ language = "en"
  /\ ethics_document = None
  /\ ethics_messages = <<>>
  /\ ethics_audio_responses = {}

\* The state after the first script run of a session.  main returns before
\* the application is constructed when Config.validate_setup finds an error;
\* the processes considered have the data folder and the roster file, so
\* the only such error is the missing key.
Init ==
  /\ SessionDefaults
  /\ clock = 0
  /\ failures = 0
  /\ api_key \in BOOLEAN
  /\ view = IF api_key THEN "screen" ELSE "configuration_error"
  /\ displayed_error = None
  /\ validation = None
  /\ call = None
  /\ authenticated = FALSE
  /\ last = "init"
  /\ current_language = "en"
  /\ other_language = "en"
  /\ about = [session_language |-> "en", language |-> "en"]
  /\ load = None
  /\ database_loaded = api_key
  /\ roster_cache = IF api_key THEN Some(1) ELSE None
  /\ file_reads = IF api_key THEN 1 ELSE 0
  /\ roster_load = None
  /\ speech = None
  /\ lookup = None
  /\ audio_enabled = TRUE
  /\ synthesized = {}

\* AudioManager.is_available: the client exists when the key is configured
is_available == api_key

\* what the roster file may hold when it is read: the rows it held at the
\* first script run of the process, or fewer
RosterFiles == <<RosterRows, Tail(RosterRows)>>

\* faulty variant: every call reads the roster file
read_every_time(cache, reads, k) ==
  [result |-> load_student_database(RosterFiles[k]),
   cache |-> Some(k),
   reads |-> reads + 1, cached |-> FALSE]

\* @st.cache_data on DatabaseManager.load_student_database: the function
\* takes no argument, so the process holds one entry; a call that finds it
\* returns it, a call that does not reads the roster file, which holds
\* RosterFiles[k] at that moment, and stores what the function returned.
\* The entry is kept as the index of the file content it was computed from.
cache_data(cache, reads, k) ==
  IF cache # None
  THEN [result |-> load_student_database(RosterFiles[Val(cache)]),
        cache |-> cache, reads |-> reads, cached |-> TRUE]
  ELSE [result |-> load_student_database(RosterFiles[k]),
        cache |-> Some(k),
        reads |-> reads + 1, cached |-> FALSE]

\* UniversityChatbot.load_database without the session flag: the call of
\* load_student_database and what the process keeps of it
load_roster ==
  \E k \in DOMAIN RosterFiles :
    LET c == cache_data(roster_cache, file_reads, k)
    IN /\ roster_cache' = c.cache
       /\ file_reads' = c.reads
       /\ roster_load' = Some([cached |-> c.cached, result |-> c.result])

\* UniversityChatbot.load_database: a session whose database_loaded flag is
\* unset calls load_student_database
load_database ==
  IF ~database_loaded
  THEN load_roster
  ELSE /\ roster_load' = None
       /\ UNCHANGED <<roster_cache, file_reads>>

\* app.py main, UniversityChatbot.__init__, initialize_app: what every script
\* run does before the sidebar and the screen.  The run is reached only with
\* a valid setup; setup_page_config translates the 'About' text in the
\* language the language manager holds from the previous run of the
\* process; init_language_system then sets it to the session's language.
begin_run ==
  /\ api_key
  /\ api_key' = api_key
  /\ about' = [session_language |-> language, language |-> current_language]
  /\ other_language' = other_language
  /\ speech' = speech
  /\ lookup' = lookup
  /\ load_database

\* what every handler does to the bookkeeping of the run; lang is the
\* session's language when the run ends
Finished(op, next_view, lang) ==
  /\ begin_run
  /\ audio_enabled' = audio_enabled
  /\ load' = None
  /\ current_language' = lang
  /\ last' = op
  /\ view' = next_view
  /\ failures' = failures

\* load_database has set the session's flag: the roster is not empty
RanIn(op, next_view, lang) ==
  /\ Finished(op, next_view, lang)
  /\ database_loaded' = TRUE

Ran(op, next_view) ==
  /\ RanIn(op, next_view, language)
  /\ call' = None
  /\ synthesized' = {}

\* SessionManager.reset_conversation
reset_conversation ==
  /\ conversation_step' = "welcome"
  /\ student_id' = None
  /\ student_code' = None
  /\ student_data' = None
  /\ selected_path' = None
  /\ selected_module' = None
  /\ selected_coursework' = None
  /\ current_document' = None
  /\ messages' = <<>>
  /\ audio_responses' = {}
  /\ error_message' = None
  /\ retry_count' = 0
  /\ ethics_document' = None
  /\ UNCHANGED <<ethics_messages, ethics_audio_responses, language>>

(***************************************************************************)
(* ui_components.py render_welcome_screen                                  *)
(***************************************************************************)
\* faulty variant: the ethics button opens the ethics chat at once
welcome_target_direct(path) == IF path = "ethics" THEN "ethics_chat" ELSE "student_id"

\* the step that the button of a path leads to
welcome_target(path) == "student_id"

welcome_btn(path) ==
  /\ view = "screen" /\ conversation_step = "welcome"
  /\ selected_path' = Some(path)
  /\ conversation_step' = welcome_target(path)
  /\ Ran("welcome_btn", "pending")
  /\ displayed_error' = None /\ validation' = None
  /\ UNCHANGED <<student_id, student_code, student_data, selection_vars, chat_vars,
                 ethics_vars, error_vars, language, clock, authenticated>>

(***************************************************************************)
(* conversation_flows.py render_student_id_input                           *)
(***************************************************************************)
\* faulty variant of 'Back' at the student_id step: the chosen path is
\* forgotten
student_id_back_forgets_path ==
  /\ view = "screen" /\ conversation_step = "student_id"
  /\ conversation_step' = "welcome"
  /\ selected_path' = None
  /\ error_message' = None
  /\ retry_count' = 0
  /\ Ran("student_id_back", "pending")
  /\ displayed_error' = None /\ validation' = None
  /\ UNCHANGED <<student_id, student_code, student_data, selection_vars, chat_vars,
                 ethics_vars, language, clock, authenticated>>

student_id_back ==
  /\ view = "screen" /\ conversation_step = "student_id"
  /\ conversation_step' = "welcome"
  /\ error_message' = None
  /\ retry_count' = 0
  /\ Ran("student_id_back", "pending")
  /\ displayed_error' = None /\ validation' = None
  /\ UNCHANGED <<auth_vars, selection_vars, chat_vars, ethics_vars, language, clock,
                 authenticated>>

student_id_next(input) ==
  /\ view = "screen" /\ conversation_step = "student_id"
  /\ validation' = None
  /\ IF input # <<>> /\ strip(input) # <<>>
       THEN /\ student_id' = Some(upper(strip(input)))
            /\ conversation_step' = "code"
            /\ error_message' = None
            /\ displayed_error' = None
            /\ Ran("student_id_next", "pending")
       ELSE /\ displayed_error' = Some(t("enter_question", <<>>))
            /\ Ran("student_id_next", "screen")
            /\ UNCHANGED <<student_id, conversation_step, error_message>>
  /\ UNCHANGED <<student_code, student_data, selected_path, selection_vars, chat_vars,
                 ethics_vars, retry_count, language, clock, authenticated>>

(***************************************************************************)
(* conversation_flows.py render_code_input                                 *)
(***************************************************************************)
code_back ==
  /\ view = "screen" /\ conversation_step = "code"
  /\ conversation_step' = "student_id"
  /\ error_message' = None
  /\ Ran("code_back", "pending")
  /\ displayed_error' = None /\ validation' = None
  /\ UNCHANGED <<auth_vars, selection_vars, chat_vars, ethics_vars, retry_count,
                 language, clock, authenticated>>

\* the message stored by a failed check
translated_message(message, sid) ==
  IF message = "not found" THEN t("student_not_found", sid)
  ELSE IF message = "Invalid code" THEN t("invalid_code", sid)
  ELSE raw(message)

\* faulty variant: the chosen path is ignored
verified_step_module(path) == "module"

\* the step after a successful check
verified_step(path) == IF path = Some("ethics") THEN "ethics_chat" ELSE "module"

\* faulty variant: the failed check is not counted
failed_retry_count_same(n) == n

\* retry_count after a failed check
failed_retry_count(n) == n + 1

code_verify(code) ==
  /\ view = "screen" /\ conversation_step = "code"
  /\ IF code # <<>> /\ strip(code) # <<>>
       THEN LET result == validate_student_credentials(student_database, Val(student_id), code)
            IN /\ validation' = Some([student_id |-> Val(student_id), code |-> code,
                                      is_valid |-> result.is_valid,
                                      student_data |-> result.student_data,
                                      message |-> result.message])
               /\ displayed_error' = None
               /\ Ran("code_verify", "pending")
               /\ IF result.is_valid
                    THEN /\ student_code' = Some(code)
                         /\ student_data' = result.student_data
                         /\ error_message' = None
                         /\ retry_count' = 0
                         /\ conversation_step' = verified_step(selected_path)
                         /\ authenticated' = TRUE
                    ELSE /\ retry_count < MaxRetry
                         /\ error_message' =
                              Some(translated_message(result.message, Val(student_id)))
                         /\ retry_count' = failed_retry_count(retry_count)
                         /\ UNCHANGED <<student_code, student_data, conversation_step,
                                        authenticated>>
       ELSE /\ displayed_error' = Some(t("enter_ethics_question", <<>>))
            /\ validation' = None
            /\ Ran("code_verify", "screen")
            /\ UNCHANGED <<student_code, student_data, conversation_step, error_vars,
                           authenticated>>
  /\ UNCHANGED <<student_id, selected_path, selection_vars, chat_vars, ethics_vars,
                 language, clock>>

(***************************************************************************)
(* conversation_flows.py render_module_selection                           *)
(***************************************************************************)
student_modules == get_student_modules(student_database, Val(student_id))

module_select_pdf(module_name, i) ==
  /\ view = "screen" /\ conversation_step = "module"
  /\ module_name \in DOMAIN student_modules
  /\ LET pdfs == student_modules[module_name]
     IN /\ Len(pdfs) > 1
        /\ i \in 1..Len(pdfs)
        /\ selected_module' = Some([module |-> module_name,
                                    programme |-> pdfs[i].programme,
                                    pdf_file |-> pdfs[i].pdf_file,
                                    coursework_type |-> pdfs[i].coursework_type,
                                    display_name |-> pdfs[i].display_name,
                                    is_multi_pdf |-> TRUE,
                                    all_pdfs |-> pdfs])
  /\ conversation_step' = "coursework"
  /\ Ran("module_select_pdf", "pending")
  /\ displayed_error' = None /\ validation' = None
  /\ UNCHANGED <<auth_vars, selected_coursework, current_document, chat_vars, ethics_vars,
                 error_vars, language, clock, authenticated>>

module_select_all(module_name) ==
  /\ view = "screen" /\ conversation_step = "module"
  /\ module_name \in DOMAIN student_modules
  /\ LET pdfs == student_modules[module_name]
     IN /\ Len(pdfs) > 1
        /\ selected_module' = Some([module |-> module_name,
                                    programme |-> pdfs[1].programme,
                                    pdf_file |-> "multiple",
                                    coursework_type |-> "All Materials",
                                    display_name |-> t("all_materials", <<module_name>>),
                                    is_multi_pdf |-> TRUE,
                                    all_pdfs |-> pdfs])
  /\ conversation_step' = "coursework"
  /\ Ran("module_select_all", "pending")
  /\ displayed_error' = None /\ validation' = None
  /\ UNCHANGED <<auth_vars, selected_coursework, current_document, chat_vars, ethics_vars,
                 error_vars, language, clock, authenticated>>

module_select_single(module_name) ==
  /\ view = "screen" /\ conversation_step = "module"
  /\ module_name \in DOMAIN student_modules
  /\ LET pdfs == student_modules[module_name]
     IN /\ Len(pdfs) = 1
        /\ selected_module' = Some([module |-> module_name,
                                    programme |-> pdfs[1].programme,
                                    pdf_file |-> pdfs[1].pdf_file,
                                    coursework_type |-> pdfs[1].coursework_type,
                                    display_name |-> pdfs[1].display_name,
                                    is_multi_pdf |-> FALSE,
                                    all_pdfs |-> pdfs])
  /\ conversation_step' = "coursework"
  /\ Ran("module_select_single", "pending")
  /\ displayed_error' = None /\ validation' = None
  /\ UNCHANGED <<auth_vars, selected_coursework, current_document, chat_vars, ethics_vars,
                 error_vars, language, clock, authenticated>>

\* faulty variant: 'Back' of the module step leads to the coursework step
module_back_target_coursework == "coursework"

\* the step that 'Back' of the module step leads to
module_back_target == "code"

module_back_btn ==
  /\ view = "screen" /\ conversation_step = "module"
  /\ conversation_step' = module_back_target
  /\ Ran("module_back_btn", "pending")
  /\ displayed_error' = None /\ validation' = None
  /\ UNCHANGED <<auth_vars, selection_vars, chat_vars, ethics_vars, error_vars, language,
                 clock, authenticated>>

(***************************************************************************)
(* conversation_flows.py render_coursework_selection                       *)
(***************************************************************************)
coursework_types == {"assignment", "reading", "concepts", "exam", "general"}

coursework_title_key(type) ==
  CASE type = "assignment" -> "assignment_questions"
    [] type = "reading" -> "reading_materials"
    [] type = "concepts" -> "concepts_theory"
    [] type = "exam" -> "exam_preparation"
    [] OTHER -> "general_questions"

coursework_select(type) ==
  /\ view = "screen" /\ conversation_step = "coursework"
  /\ selected_coursework' = Some([title |-> t(coursework_title_key(type), <<>>),
                                  type |-> type])
  /\ conversation_step' = "chat"
  /\ Ran("coursework_select", "pending")
  /\ displayed_error' = None /\ validation' = None
  /\ UNCHANGED <<auth_vars, selected_module, current_document, chat_vars, ethics_vars,
                 error_vars, language, clock, authenticated>>

coursework_back ==
  /\ view = "screen" /\ conversation_step = "coursework"
  /\ conversation_step' = "module"
  /\ Ran("coursework_back", "pending")
  /\ displayed_error' = None /\ validation' = None
  /\ UNCHANGED <<auth_vars, selection_vars, chat_vars, ethics_vars, error_vars, language,
                 clock, authenticated>>

(***************************************************************************)
(* conversation_flows.py _handle_chat_input, _render_chat_controls.        *)
(* The chat input and the controls are rendered only once the document     *)
(* is loaded (render_chat_interface returns before them otherwise).        *)
(***************************************************************************)
chat_input(prompt, client, remote, audio) ==
  /\ view = "screen" /\ conversation_step = "chat"
  /\ current_document # None
  /\ clock + 2 <= 2 * MaxQuestions
  /\ LET response == generate_coursework_response(client, prompt,
                        Val(current_document).content, remote)
         user == [role |-> "user", content |-> raw(prompt), timestamp |-> clock + 1]
         ai_message == [role |-> "assistant", content |-> response, timestamp |-> clock + 2]
         appended == messages \o <<user, ai_message>>
     IN /\ messages' = appended
        /\ audio_responses' =
             IF audio_enabled /\ audio # None
               THEN put(audio_responses, message_key(appended, Len(appended)), Val(audio))
               ELSE audio_responses
        /\ synthesized' = IF audio_enabled
                            THEN {message_key(appended, Len(appended))} ELSE {}
  /\ clock' = clock + 2
  /\ RanIn("chat_input", "pending", language)
  /\ call' = Some([operation |-> "coursework", client |-> client, question |-> prompt,
                   document_content |-> Val(current_document).content,
                   remote |-> remote,
                   document_info |-> document_info_of(client, prompt,
                                       Val(current_document).content,
                                       Val(current_document).module),
                   response |-> generate_coursework_response(client, prompt,
                                  Val(current_document).content, remote)])
  /\ displayed_error' = None /\ validation' = None
  /\ UNCHANGED <<conversation_step, auth_vars, selection_vars, ethics_vars, error_vars,
                 language, authenticated>>

new_session_btn ==
  /\ view = "screen" /\ conversation_step = "chat"
  /\ current_document # None
  /\ reset_conversation
  /\ authenticated' = FALSE
  /\ Ran("new_session_btn", "pending")
  /\ displayed_error' = None /\ validation' = None
  /\ UNCHANGED clock

\* faulty variant of 'Change module': the loaded document is kept
change_module_keeps_document ==
  /\ view = "screen" /\ conversation_step = "chat"
  /\ current_document # None
  /\ conversation_step' = "module"
  /\ messages' = <<>>
  /\ Ran("change_module_btn", "pending")
  /\ displayed_error' = None /\ validation' = None
  /\ UNCHANGED <<auth_vars, selection_vars, audio_responses,
                 ethics_vars, error_vars, language, clock, authenticated>>

change_module_btn ==
  /\ view = "screen" /\ conversation_step = "chat"
  /\ current_document # None
  /\ conversation_step' = "module"
  /\ messages' = <<>>
  /\ current_document' = None
  /\ Ran("change_module_btn", "pending")
  /\ displayed_error' = None /\ validation' = None
  /\ UNCHANGED <<auth_vars, selected_module, selected_coursework, audio_responses,
                 ethics_vars, error_vars, language, clock, authenticated>>

(***************************************************************************)
(* ethics_handler.py render_ethics_chat_interface                          *)
(***************************************************************************)
\* faulty variant of the ethics chat input: a question whose completion
\* fails remotely is left without an assistant message
ethics_chat_input_unanswered(prompt, client, remote) ==
  /\ view = "screen" /\ conversation_step = "ethics_chat"
  /\ ethics_document # None
  /\ clock + 2 <= 2 * MaxQuestions
  /\ LET response == generate_ethics_response(client, prompt,
                        Val(ethics_document).content, remote)
         user == [role |-> "user", content |-> raw(prompt), timestamp |-> clock + 1]
         ai_message == [role |-> "assistant", content |-> response, timestamp |-> clock + 2]
     IN /\ ethics_messages' = IF response.key = "response_error"
                                THEN ethics_messages \o <<user>>
                                ELSE ethics_messages \o <<user, ai_message>>
        /\ call' = Some([operation |-> "ethics", client |-> client, question |-> prompt,
                         document_content |-> Val(ethics_document).content,
                         remote |-> remote, response |-> response])
  /\ clock' = clock + 2
  /\ RanIn("ethics_chat_input", "pending", language)
  /\ synthesized' = {}
  /\ displayed_error' = None /\ validation' = None
  /\ UNCHANGED <<conversation_step, auth_vars, selection_vars, chat_vars, ethics_document,
                 ethics_audio_responses, error_vars, language, authenticated>>

ethics_chat_input(prompt, client, remote) ==
  /\ view = "screen" /\ conversation_step = "ethics_chat"
  /\ ethics_document # None
  /\ clock + 2 <= 2 * MaxQuestions
  /\ LET response == generate_ethics_response(client, prompt,
                        Val(ethics_document).content, remote)
     IN ethics_messages' = ethics_messages \o
          << [role |-> "user", content |-> raw(prompt), timestamp |-> clock + 1],
             [role |-> "assistant", content |-> response, timestamp |-> clock + 2] >>
  /\ clock' = clock + 2
  /\ RanIn("ethics_chat_input", "pending", language)
  /\ synthesized' = {}
  /\ call' = Some([operation |-> "ethics", client |-> client, question |-> prompt,
                   document_content |-> Val(ethics_document).content,
                   remote |-> remote,
                   response |-> generate_ethics_response(client, prompt,
                                  Val(ethics_document).content, remote)])
  /\ displayed_error' = None /\ validation' = None
  /\ UNCHANGED <<conversation_step, auth_vars, selection_vars, chat_vars, ethics_document,
                 ethics_audio_responses, error_vars, language, authenticated>>

\* the buttons 'New session' and 'Clear chat' of the ethics chat
ethics_new_session ==
  /\ view = "screen" /\ conversation_step = "ethics_chat"
  /\ ethics_messages' = <<>>
  /\ ethics_audio_responses' = {}
  /\ Ran("ethics_new_session", "pending")
  /\ displayed_error' = None /\ validation' = None
  /\ UNCHANGED <<conversation_step, auth_vars, selection_vars, chat_vars, ethics_document,
                 error_vars, language, clock, authenticated>>

ethics_clear_chat ==
  /\ view = "screen" /\ conversation_step = "ethics_chat"
  /\ ethics_messages' = <<>>
  /\ ethics_audio_responses' = {}
  /\ Ran("ethics_clear_chat", "pending")
  /\ displayed_error' = None /\ validation' = None
  /\ UNCHANGED <<conversation_step, auth_vars, selection_vars, chat_vars, ethics_document,
                 error_vars, language, clock, authenticated>>

ethics_back_to_menu ==
  /\ view = "screen" /\ conversation_step = "ethics_chat"
  /\ conversation_step' = "welcome"
  /\ Ran("ethics_back_to_menu", "pending")
  /\ displayed_error' = None /\ validation' = None
  /\ UNCHANGED <<auth_vars, selection_vars, chat_vars, ethics_vars, error_vars, language,
                 clock, authenticated>>

\* 'Back to Welcome' of the panel shown when the ethics render failed
ethics_back_to_welcome ==
  /\ view = "error" /\ conversation_step = "ethics_chat"
  /\ conversation_step' = "welcome"
  /\ Ran("ethics_back_to_welcome", "pending")
  /\ displayed_error' = None /\ validation' = None
  /\ UNCHANGED <<auth_vars, selection_vars, chat_vars, ethics_vars, error_vars, language,
                 clock, authenticated>>

(***************************************************************************)
(* ui_components.py render_sidebar, localization.py render_language_selector*)
(* The sidebar is rendered before the screen, also when the screen fails.  *)
(***************************************************************************)
sidebar_start_over ==
  /\ view \in {"screen", "error"}
  /\ reset_conversation
  /\ authenticated' = FALSE
  /\ Ran("sidebar_start_over", "pending")
  /\ displayed_error' = None /\ validation' = None
  /\ UNCHANGED clock

\* faulty variant of 'Clear Chat': the audio cache is kept
sidebar_clear_chat_keeps_audio ==
  /\ view \in {"screen", "error"}
  /\ conversation_step = "chat"
  /\ messages' = <<>>
  /\ Ran("sidebar_clear_chat", "pending")
  /\ displayed_error' = None /\ validation' = None
  /\ UNCHANGED <<conversation_step, auth_vars, selection_vars, audio_responses,
                 ethics_vars, error_vars, language, clock, authenticated>>

\* SessionManager.clear_chat behind the sidebar button
sidebar_clear_chat ==
  /\ view \in {"screen", "error"}
  /\ conversation_step = "chat"
  /\ messages' = <<>>
  /\ audio_responses' = {}
  /\ Ran("sidebar_clear_chat", "pending")
  /\ displayed_error' = None /\ validation' = None
  /\ UNCHANGED <<conversation_step, auth_vars, selection_vars, ethics_vars, error_vars,
                 language, clock, authenticated>>

language_selector(lang) ==
  /\ view \in {"screen", "error"}
  /\ lang # language
  /\ language' = lang
  /\ RanIn("language_selector", "pending", lang)
  /\ synthesized' = {}
  /\ call' = None
  /\ displayed_error' = None /\ validation' = None
  /\ UNCHANGED <<conversation_step, auth_vars, selection_vars, chat_vars, ethics_vars,
                 error_vars, clock, authenticated>>

(***************************************************************************)
(* app.py show_screen_error: the panel shown when rendering a step raised  *)
(***************************************************************************)
\* 'Start Over' deletes every key; the rerun's initialize_session_state
\* then sets the defaults again.  The language manager keeps the language
\* of this run until the rerun's init_language_system.
screen_error_start_over ==
  /\ view = "error" /\ conversation_step # "ethics_chat"
  /\ conversation_step' = "welcome"
  /\ student_id' = None
  /\ student_code' = None
  /\ student_data' = None
  /\ selected_path' = None
  /\ selected_module' = None
  /\ selected_coursework' = None
  /\ current_document' = None
  /\ messages' = <<>>
  /\ audio_responses' = {}
  /\ error_message' = None
  /\ retry_count' = 0
  /\ language' = "en"
  /\ ethics_document' = None
  /\ ethics_messages' = <<>>
  /\ ethics_audio_responses' = {}
  /\ authenticated' = FALSE
  /\ database_loaded' = FALSE
  /\ Finished("screen_error_start_over", "pending", language)
  /\ call' = None
  /\ synthesized' = {}
  /\ displayed_error' = None /\ validation' = None
  /\ UNCHANGED clock

screen_error_back_to_welcome ==
  /\ view = "error" /\ conversation_step # "ethics_chat"
  /\ conversation_step' = "welcome"
  /\ Ran("screen_error_back_to_welcome", "pending")
  /\ displayed_error' = None /\ validation' = None
  /\ UNCHANGED <<auth_vars, selection_vars, chat_vars, ethics_vars, error_vars, language,
                 clock, authenticated>>

(***************************************************************************)
(* app.py run / render_current_screen: one script run that handles no      *)
(* click.  raised: the render raised an exception before changing the      *)
(* session; readable: the documents that can be read now; ethics_readable: *)
(* whether the ethics document can; audio: the speech client's answers.    *)
(***************************************************************************)
ethics_loaded == [content |-> <<text("reforming_modernity.pdf")>>,
                  filename |-> "reforming_modernity.pdf"]

\* faulty variant: a load without content is stored as the document
render_chat_interface_stores_failure(readable, audio) ==
  LET loaded == load_document_for_module(Val(selected_module), readable)
      document == IF current_document = None /\ selected_module # None
                    THEN Some([content |-> loaded.content,
                               metadata |-> loaded.metadata,
                               module |-> Val(selected_module)])
                    ELSE current_document
  IN /\ current_document' = document
     /\ load' = None
     /\ audio_responses' =
          IF audio_enabled' /\ is_available
            THEN render_audio(messages, Len(messages), audio_responses, audio)
            ELSE audio_responses
     /\ synthesized' = synthesis_calls(messages, audio_responses, audio_enabled',
                                       is_available)
     /\ view' = "screen"
     /\ UNCHANGED ethics_vars

render_chat_interface(readable, audio) ==
  LET loaded == load_document_for_module(Val(selected_module), readable)
      document == IF current_document = None /\ selected_module # None
                    THEN IF loaded.content # <<>>
                           THEN Some([content |-> loaded.content,
                                      metadata |-> loaded.metadata,
                                      module |-> Val(selected_module)])
                           ELSE None
                    ELSE current_document
  IN /\ current_document' = document
     /\ load' = IF current_document = None /\ selected_module # None
                  THEN Some([module_data |-> Val(selected_module), readable |-> readable,
                             content |-> loaded.content, metadata |-> loaded.metadata])
                  ELSE None
     /\ audio_responses' =
          IF document # None /\ audio_enabled' /\ is_available
            THEN render_audio(messages, Len(messages), audio_responses, audio)
            ELSE audio_responses
     /\ synthesized' =
          IF document # None
            THEN synthesis_calls(messages, audio_responses, audio_enabled', is_available)
            ELSE {}
     /\ view' = "screen"
     /\ UNCHANGED ethics_vars

render_ethics_chat_interface(ethics_readable, audio) ==
  LET document == IF ethics_document = None
                    THEN IF ethics_readable THEN Some(ethics_loaded) ELSE None
                    ELSE ethics_document
  IN /\ ethics_document' = document
     /\ ethics_audio_responses' =
          IF document # None /\ audio_enabled' /\ is_available
            THEN render_audio(ethics_messages, Len(ethics_messages),
                              ethics_audio_responses, audio)
            ELSE ethics_audio_responses
     /\ synthesized' =
          IF document # None
            THEN synthesis_calls(ethics_messages, ethics_audio_responses, audio_enabled',
                                 is_available)
            ELSE {}
     /\ view' = IF document # None THEN "screen" ELSE "error"
     /\ UNCHANGED <<ethics_messages, current_document, audio_responses, load>>

\* UniversityChatbot.run: the sidebar, where render_voice_selector stores
\* the state of the audio checkbox, then the screen of the step
script_run(raised, readable, ethics_readable, audio, enabled) ==
  /\ audio_enabled' = enabled
  /\ IF raised
       THEN /\ failures < MaxFailures
            /\ view' = "error"
            /\ load' = None
            /\ synthesized' = {}
            /\ UNCHANGED <<current_document, audio_responses, ethics_vars>>
     ELSE IF conversation_step = "chat"
       THEN render_chat_interface(readable, audio)
     ELSE IF conversation_step = "ethics_chat"
       THEN render_ethics_chat_interface(ethics_readable, audio)
     ELSE /\ view' = "screen"
          /\ load' = None
          /\ synthesized' = {}
          /\ UNCHANGED <<current_document, audio_responses, ethics_vars>>
  /\ failures' = IF raised THEN failures + 1 ELSE failures
  /\ last' = "run"
  /\ begin_run
  /\ database_loaded' = TRUE
  /\ current_language' = language
  /\ displayed_error' = None /\ validation' = None /\ call' = None
  /\ UNCHANGED <<conversation_step, auth_vars, selected_module, selected_coursework,
                 messages, error_vars, language, clock, authenticated>>

\* a script run with the audio checkbox as it is
run(raised, readable, ethics_readable, audio) ==
  script_run(raised, readable, ethics_readable, audio, audio_enabled)

\* the script run after a click on the audio checkbox of the sidebar
voice_selector(raised, readable, ethics_readable, audio) ==
  script_run(raised, readable, ethics_readable, audio, ~audio_enabled)

\* the inputs of a run that the current step can observe
ReadableChoices ==
  IF conversation_step = "chat" /\ current_document = None /\ selected_module # None
    THEN SUBSET {Val(selected_module).all_pdfs[i].pdf_file :
                   i \in 1..Len(Val(selected_module).all_pdfs)}
    ELSE {{}}

EthicsReadableChoices ==
  IF conversation_step = "ethics_chat" /\ ethics_document = None THEN BOOLEAN ELSE {TRUE}

AudioChoices(outcomes) ==
  LET msgs == IF conversation_step = "chat" THEN messages
              ELSE IF conversation_step = "ethics_chat" THEN ethics_messages
              ELSE <<>>
  IN [{i \in 1..Len(msgs) : msgs[i].role = "assistant"} -> outcomes]

\* the modules named in the roster
Modules == {RosterRows[i].module : i \in 1..Len(RosterRows)}

\* no audio is synthesised: every speech call returns nothing
Silent == {None}

\* the remote completion succeeds
Answered == {"ok"}

\* the first and the last option of the coursework step
TypeChoices == {"assignment", "general"}

(***************************************************************************)
(* The conversation flow: every handler of every step, with the texts of   *)
(* IdTexts and CodeTexts typed, in the default language, without speech,   *)
(* the remote completion answering.                                        *)
(***************************************************************************)
Next ==
  \/ \E path \in {"ethics", "coursework"} : welcome_btn(path)
  \/ student_id_back
  \/ \E input \in IdTexts : student_id_next(input)
  \/ code_back
  \/ \E code \in CodeTexts : code_verify(code)
  \/ \E m \in Modules, i \in 1..Len(RosterRows) : module_select_pdf(m, i)
  \/ \E m \in Modules : module_select_all(m)
  \/ \E m \in Modules : module_select_single(m)
  \/ module_back_btn
  \/ \E type \in TypeChoices : coursework_select(type)
  \/ coursework_back
  \/ \E prompt \in Prompts, remote \in Answered, audio \in Silent :
       chat_input(prompt, TRUE, remote, audio)
  \/ new_session_btn
  \/ change_module_btn
  \/ \E prompt \in Prompts, remote \in Answered : ethics_chat_input(prompt, TRUE, remote)
  \/ ethics_new_session
  \/ ethics_clear_chat
  \/ ethics_back_to_menu
  \/ ethics_back_to_welcome
  \/ sidebar_start_over
  \/ sidebar_clear_chat
  \/ screen_error_start_over
  \/ screen_error_back_to_welcome
  \/ \E raised \in BOOLEAN, readable \in ReadableChoices,
        ethics_readable \in EthicsReadableChoices, audio \in AudioChoices(Silent) :
       run(raised, readable, ethics_readable, audio)

Spec == Init /\ [][Next]_vars

(***************************************************************************)
(* The credential steps: every text of bounded length typed at the         *)
(* student_id and code steps, in every language, every render succeeding.  *)
(***************************************************************************)
NextInput ==
  \/ \E path \in {"ethics", "coursework"} : welcome_btn(path)
  \/ student_id_back
  \/ \E input \in IdInputs : student_id_next(input)
  \/ code_back
  \/ \E code \in CodeInputs : code_verify(code)
  \/ sidebar_start_over
  \/ \E lang \in Languages : language_selector(lang)
  \/ \E ethics_readable \in EthicsReadableChoices, audio \in AudioChoices(Silent) :
       run(FALSE, {}, ethics_readable, audio)

SpecInput == Init /\ [][NextInput]_vars

(***************************************************************************)
(* The chats: student A logs in with the stored code and reaches either    *)
(* chat; questions are blank or not, the completion client is constructed  *)
(* or not, the remote call has every outcome, the speech client answers    *)
(* or not, documents are readable or not, in every language.               *)
(***************************************************************************)
PromptTexts == {<<" ">>, <<"q">>}

NextChat ==
  \/ \E path \in {"ethics", "coursework"} : welcome_btn(path)
  \/ student_id_next(<<"a">>)
  \/ code_verify(<<"1">>)
  \/ \E m \in Modules : module_select_pdf(m, 1)
  \/ coursework_select("general")
  \/ \E prompt \in PromptTexts, client \in BOOLEAN, remote \in RemoteOutcomes,
        audio \in AudioOutcomes : chat_input(prompt, client, remote, audio)
  \/ new_session_btn
  \/ change_module_btn
  \/ \E prompt \in PromptTexts, client \in BOOLEAN, remote \in RemoteOutcomes :
       ethics_chat_input(prompt, client, remote)
  \/ ethics_new_session
  \/ ethics_clear_chat
  \/ ethics_back_to_menu
  \/ sidebar_start_over
  \/ sidebar_clear_chat
  \/ \E lang \in Languages : language_selector(lang)
  \/ screen_error_start_over
  \/ screen_error_back_to_welcome
  \/ \E raised \in BOOLEAN, readable \in ReadableChoices,
        ethics_readable \in EthicsReadableChoices, audio \in AudioChoices(AudioOutcomes) :
       run(raised, readable, ethics_readable, audio)

SpecChat == Init /\ [][NextChat]_vars

(***************************************************************************)
(* The completion operations on their own: each is called with every       *)
(* question of bounded length, with and without a client, with and         *)
(* without document content, for every outcome of the remote call.         *)
(***************************************************************************)
PromptChars == {" ", "q"}
PromptInputs == StringsUpTo(PromptChars, MaxPromptLen)
DocumentContents == {<<>>, <<text("m1_coursework1.pdf")>>}

complete(operation, client, question, document_content, remote) ==
  /\ call' = Some([operation |-> operation, client |-> client, question |-> question,
                   document_content |-> document_content, remote |-> remote,
                   response |-> IF operation = "coursework"
                                  THEN generate_coursework_response(client, question,
                                         document_content, remote)
                                  ELSE generate_ethics_response(client, question,
                                         document_content, remote)])
  /\ last' = "complete"
  /\ UNCHANGED <<conversation_step, auth_vars, selection_vars, chat_vars, ethics_vars,
                 error_vars, language, clock, failures, view, displayed_error,
                 validation, authenticated, api_key, current_language,
                 other_language, about,
                 load, database_loaded, roster_cache, file_reads, roster_load, speech, lookup,
                 audio_enabled, synthesized>>

NextCompletion ==
  \E operation \in {"coursework", "ethics"}, client \in BOOLEAN,
     question \in PromptInputs, document_content \in DocumentContents,
     remote \in RemoteOutcomes :
    complete(operation, client, question, document_content, remote)

SpecCompletion == Init /\ [][NextCompletion]_vars

(***************************************************************************)
(* The audio caches: student A reaches either chat and asks questions      *)
(* that are answered; the speech client fails or returns one of two        *)
(* recordings, at the submission and at every render.                      *)
(***************************************************************************)
Recordings == {None, Some("mp3"), Some("mp3 again")}

NextAudio ==
  \/ \E path \in {"ethics", "coursework"} : welcome_btn(path)
  \/ student_id_next(<<"a">>)
  \/ code_verify(<<"1">>)
  \/ \E m \in Modules : module_select_all(m)
  \/ coursework_select("general")
  \/ \E audio \in Recordings : chat_input(<<"q">>, TRUE, "ok", audio)
  \/ new_session_btn
  \/ change_module_btn
  \/ ethics_chat_input(<<"q">>, TRUE, "ok")
  \/ ethics_new_session
  \/ ethics_clear_chat
  \/ ethics_back_to_menu
  \/ sidebar_start_over
  \/ sidebar_clear_chat
  \/ screen_error_start_over
  \/ screen_error_back_to_welcome
  \/ \E raised \in BOOLEAN, audio \in AudioChoices(Recordings) :
       run(raised, Files, TRUE, audio)
  \/ \E raised \in BOOLEAN, audio \in AudioChoices(Recordings) :
       voice_selector(raised, Files, TRUE, audio)

SpecAudio == Init /\ [][NextAudio]_vars

(***************************************************************************)
(* localization.py: another session of the same process.  Its script runs  *)
(* call init_language_system and its language selector calls set_language  *)
(* on the one language_manager of the process.                             *)
(***************************************************************************)
other_run ==
  /\ api_key
  /\ current_language' = other_language
  /\ roster_load' = None
  /\ UNCHANGED <<conversation_step, auth_vars, selection_vars, chat_vars, ethics_vars,
                 error_vars, language, clock, failures, view, displayed_error,
                 validation, authenticated, last, call, api_key, other_language, about,
                 load, database_loaded, roster_cache, file_reads, speech, lookup,
                 audio_enabled, synthesized>>

\* the first script run of one more session of the process: its
\* database_loaded flag is unset, so it calls load_student_database
other_first_run ==
  /\ api_key
  /\ current_language' = "en"
  /\ load_roster
  /\ UNCHANGED <<conversation_step, auth_vars, selection_vars, chat_vars, ethics_vars,
                 error_vars, language, clock, failures, view, displayed_error,
                 validation, authenticated, last, call, api_key, other_language, about,
                 load, database_loaded, speech, lookup,
                 audio_enabled, synthesized>>

other_language_selector(lang) ==
  /\ api_key
  /\ lang # other_language
  /\ other_language' = lang
  /\ current_language' = lang
  /\ roster_load' = None
  /\ UNCHANGED <<conversation_step, auth_vars, selection_vars, chat_vars, ethics_vars,
                 error_vars, language, clock, failures, view, displayed_error,
                 validation, authenticated, last, call, api_key, about,
                 load, database_loaded, roster_cache, file_reads, speech, lookup,
                 audio_enabled, synthesized>>

(***************************************************************************)
(* Two sessions of one process: this session at the welcome and student_id *)
(* steps, both sessions choosing languages, their script runs interleaved  *)
(* run by run.                                                             *)
(***************************************************************************)
NextSessions ==
  \/ \E path \in {"ethics", "coursework"} : welcome_btn(path)
  \/ student_id_back
  \/ sidebar_start_over
  \/ \E lang \in Languages : language_selector(lang)
  \/ run(FALSE, {}, TRUE, <<>>)
  \/ other_run
  \/ \E lang \in Languages : other_language_selector(lang)

SpecSessions == Init /\ [][NextSessions]_vars

(***************************************************************************)
(* The roster as the properties read it                                    *)
(***************************************************************************)
RosterIds == {RosterRows[i].sid : i \in 1..Len(RosterRows)}

\* the code is the number stored for the roster student sid
Matches(sid, code) ==
  /\ sid \in RosterIds
  /\ int(strip(code)).ok
  /\ int(strip(code)).value = FirstRowOf(RosterRows, sid).code

\* the session as a reset leaves it
Cleared ==
  /\ student_id = None /\ student_code = None /\ student_data = None
  /\ selected_path = None /\ selected_module = None /\ selected_coursework = None
  /\ current_document = None
  /\ messages = <<>> /\ audio_responses = {}
  /\ error_message = None /\ retry_count = 0

\* the two parts of C1: the state of an authenticated step, and the only
\* step into ethics_chat
C1_Credentialed ==
  conversation_step \in {"module", "coursework", "chat", "ethics_chat"} =>
    /\ authenticated
    /\ student_id # None
    /\ Val(student_id) \in RosterIds
    /\ student_data = Some(student_database.students[Val(student_id)])

C1_EthicsEntry ==
  (conversation_step # "ethics_chat" /\ conversation_step' = "ethics_chat") =>
    /\ conversation_step = "code"
    /\ selected_path = Some("ethics")
    /\ validation' # None
    /\ Matches(Val(validation').student_id, Val(validation').code)

(***************************************************************************)
(* C1: in the steps module, coursework, chat and ethics_chat a credential  *)
(* check has succeeded since the last reset and student_data is the roster *)
(* record of the current student_id; ethics_chat is entered only from the  *)
(* code step, by a check that succeeds with selected_path = 'ethics'.      *)
(***************************************************************************)
C1_CredentialCheckFirst == [](C1_Credentialed) /\ [][C1_EthicsEntry]_vars

\* a question has been answered in the chat of a module
C1_Witness ==
  /\ conversation_step = "chat"
  /\ view = "screen"
  /\ current_document # None
  /\ messages # <<>>

(***************************************************************************)
(* C2: at the chat step selected_module is a module of the roster entry    *)
(* of the current student_id, and current_document was loaded for a module *)
(* of that same student.                                                   *)
(***************************************************************************)
C2_OwnMaterials ==
  conversation_step = "chat" =>
    /\ selected_module # None
    /\ Val(selected_module).module \in DOMAIN ModulesOf(RosterRows, Val(student_id))
    /\ current_document # None =>
         Val(current_document).module.module \in DOMAIN ModulesOf(RosterRows, Val(student_id))

(***************************************************************************)
(* C3: Verify at the code step with the code stored for student_id sets    *)
(* student_data to the roster record, error_message to None, retry_count   *)
(* to 0, and the step to ethics_chat on the ethics path, to module         *)
(* otherwise.                                                              *)
(***************************************************************************)
C3_VerifyMatching ==
  [][\A code \in CodeInputs :
       (code_verify(code) /\ Matches(Val(student_id), code)) =>
         /\ student_data' = Some(student_database.students[Val(student_id)])
         /\ error_message' = None
         /\ retry_count' = 0
         /\ conversation_step' =
              IF selected_path = Some("ethics") THEN "ethics_chat" ELSE "module"]_vars

\* a check has just succeeded on the ethics path
C3_Witness ==
  /\ last = "code_verify"
  /\ validation # None
  /\ Matches(Val(validation).student_id, Val(validation).code)
  /\ conversation_step = "ethics_chat"
  /\ student_data # None

\* what C4 says of a failed check
C4_Rejected ==
  /\ conversation_step' = "code"
  /\ error_message' # None
  /\ Val(error_message').key # ""
  /\ retry_count' = retry_count + 1
  /\ UNCHANGED <<student_data, student_code>>

(***************************************************************************)
(* C4 as stated: Verify with a non-empty code that is not the code stored  *)
(* for student_id (non-numeric, another number, or an ID that is not in    *)
(* the roster) keeps the step, sets error_message, adds 1 to retry_count   *)
(* and leaves student_data and student_code unchanged.                     *)
(***************************************************************************)
C4_Original ==
  [][\A code \in CodeInputs :
       (code_verify(code) /\ code # <<>> /\ ~Matches(Val(student_id), code)) =>
         C4_Rejected]_vars

(***************************************************************************)
(* C4, amended: the same for a code that is non-empty after trimming.      *)
(***************************************************************************)
C4_VerifyFailing ==
  [][\A code \in CodeInputs :
       (code_verify(code) /\ strip(code) # <<>> /\ ~Matches(Val(student_id), code)) =>
         C4_Rejected]_vars

\* the first failed check of a session
C4_Witness ==
  /\ last = "code_verify"
  /\ validation # None
  /\ ~Matches(Val(validation).student_id, Val(validation).code)
  /\ conversation_step = "code"
  /\ retry_count = 1
  /\ error_message # None

(***************************************************************************)
(* C5: for every roster student on the coursework path, the student's ID   *)
(* typed in any letter case and then the student's code reach the module   *)
(* step, where the modules offered are those of the student's roster       *)
(* entry, whatever retry_count is.                                         *)
(***************************************************************************)
C5_RosterLogin ==
  [][\A code \in CodeInputs, student \in RosterIds :
       (/\ code_verify(code)
        /\ selected_path = Some("coursework")
        /\ Val(student_id) = upper(student)
        /\ int(strip(code)).ok
        /\ int(strip(code)).value = FirstRowOf(RosterRows, student).code) =>
         /\ conversation_step' = "module"
         /\ get_student_modules(student_database, Val(student_id')) =
              ModulesOf(RosterRows, student)]_vars

\* the IDs that the student_id step can store
StoredIds == {upper(strip(input)) : input \in IdInputs} \ {<<>>}

\* the two kinds of failing pair that C6 tells apart
UnknownId(sid) == sid \notin RosterIds
WrongCode(sid, code) == sid \in RosterIds /\ ~Matches(sid, code)

\* a call has returned failure without a record
C6_Refused ==
  /\ ~Val(validation).is_valid
  /\ Val(validation).student_data = None

(***************************************************************************)
(* C6 as stated: validate_student_credentials returns (False, None,        *)
(* message) for every pair that is not a roster student with that          *)
(* student's code, and the message for an ID absent from the roster        *)
(* differs from every message for a known ID with a wrong code.            *)
(***************************************************************************)
C6_Original ==
  (validation # None
     /\ ~Matches(Val(validation).student_id, Val(validation).code)) =>
    /\ C6_Refused
    /\ \A sid \in StoredIds, code \in CodeInputs :
         (/\ strip(code) # <<>>
          /\ \/ UnknownId(Val(validation).student_id) /\ WrongCode(sid, code)
             \/ WrongCode(Val(validation).student_id, Val(validation).code) /\ UnknownId(sid)) =>
           validate_student_credentials(student_database, sid, code).message
             # Val(validation).message

(***************************************************************************)
(* C6, amended: the call never succeeds for such a pair, and for numeric   *)
(* codes the message for an absent ID differs from the message for a known *)
(* ID with a wrong code.                                                   *)
(***************************************************************************)
C6_NeverSuccess ==
  (validation # None
     /\ ~Matches(Val(validation).student_id, Val(validation).code)) =>
    /\ C6_Refused
    /\ int(strip(Val(validation).code)).ok =>
         \A sid \in StoredIds, code \in CodeInputs :
           (/\ int(strip(code)).ok
            /\ \/ UnknownId(Val(validation).student_id) /\ WrongCode(sid, code)
               \/ WrongCode(Val(validation).student_id, Val(validation).code) /\ UnknownId(sid)) =>
             validate_student_credentials(student_database, sid, code).message
               # Val(validation).message

\* a numeric code has been checked for an ID that is not in the roster
C6_Witness ==
  /\ validation # None
  /\ UnknownId(Val(validation).student_id)
  /\ int(strip(Val(validation).code)).ok
  /\ ~Val(validation).is_valid

\* stored is typed without the whitespace around it
TrimmedFrom(stored, typed) ==
  \E i \in 1..Len(typed), j \in 1..Len(typed) :
    /\ i <= j
    /\ stored = SubSeq(typed, i, j)
    /\ typed[i] # " " /\ typed[j] # " "
    /\ \A k \in 1..Len(typed) : (k < i \/ k > j) => typed[k] = " "

\* stored is trimmed in capital letters
UppercasedFrom(stored, trimmed) ==
  /\ Len(stored) = Len(trimmed)
  /\ \A k \in 1..Len(trimmed) :
       stored[k] = CASE trimmed[k] = "a" -> "A"
                     [] trimmed[k] = "b" -> "B"
                     [] OTHER -> trimmed[k]

Blank(typed) == \A k \in 1..Len(typed) : typed[k] = " "

(***************************************************************************)
(* C7: Next at the student_id step with an input that is non-empty after   *)
(* trimming stores the trimmed, uppercased input and moves to the code     *)
(* step; with an empty or whitespace-only input it leaves the step and     *)
(* student_id unchanged and shows an error.                                *)
(***************************************************************************)
C7_StudentIdNext ==
  [][\A input \in IdInputs :
       student_id_next(input) =>
         IF Blank(input)
           THEN /\ UNCHANGED <<conversation_step, student_id>>
                /\ displayed_error' # None
           ELSE /\ conversation_step' = "code"
                /\ student_id' # None
                /\ \E trimmed \in IdInputs :
                     /\ TrimmedFrom(trimmed, input)
                     /\ UppercasedFrom(Val(student_id'), trimmed)]_vars

\* an ID typed in small letters or with whitespace has been stored
C7_Witness ==
  /\ last = "student_id_next"
  /\ conversation_step = "code"
  /\ view = "pending"
  /\ student_id = Some(<<"A", "B">>)

\* the step changes that C8 names
StepChanges ==
  { <<"welcome", "student_id">>,
    <<"student_id", "code">>, <<"student_id", "welcome">>,
    <<"code", "module">>, <<"code", "ethics_chat">>, <<"code", "student_id">>,
    <<"module", "coursework">>, <<"module", "code">>,
    <<"coursework", "chat">>, <<"coursework", "module">>,
    <<"chat", "module">>, <<"chat", "welcome">>,
    <<"ethics_chat", "welcome">> }

C8_Named == conversation_step \in Steps

C8_Change ==
  conversation_step' # conversation_step =>
    \/ <<conversation_step, conversation_step'>> \in StepChanges
    \/ conversation_step' = "welcome" /\ Cleared'

(***************************************************************************)
(* C8: conversation_step is always one of the seven steps, and every       *)
(* change of it is one of the named step changes or a reset to welcome.    *)
(***************************************************************************)
C8_StepChanges == [](C8_Named) /\ [][C8_Change]_vars

(***************************************************************************)
(* C9: after a reset (sidebar 'Start Over', chat 'New session') the step   *)
(* is welcome, the credentials, the selection and the error fields are     *)
(* unset, and every transcript and audio cache is empty, the ethics ones   *)
(* included.                                                               *)
(***************************************************************************)
C9_ResetClearsAll ==
  last \in {"sidebar_start_over", "new_session_btn"} =>
    /\ conversation_step = "welcome"
    /\ Cleared
    /\ ethics_messages = <<>>
    /\ ethics_audio_responses = {}

(***************************************************************************)
(* C10: 'New session' of the chat step and of the ethics_chat step resets  *)
(* the whole session and sets the step to welcome.                         *)
(***************************************************************************)
C10_NewSessionResets ==
  last \in {"new_session_btn", "ethics_new_session"} =>
    /\ conversation_step = "welcome"
    /\ Cleared

(***************************************************************************)
(* C11: at the chat step 'Change module' sets conversation_step to         *)
(* 'module', empties messages and clears current_document, and leaves      *)
(* student_id, student_code, student_data, selected_path and language      *)
(* unchanged.                                                              *)
(***************************************************************************)
C11_ChangeModule ==
  [][change_module_btn =>
       /\ conversation_step = "chat"
       /\ conversation_step' = "module"
       /\ messages' = <<>>
       /\ current_document' = None
       /\ UNCHANGED <<student_id, student_code, student_data, selected_path, language>>]_vars

\* 'Change module' was pressed on a transcript with messages, in a language
\* other than the default one
C11_Witness ==
  /\ last = "change_module_btn"
  /\ conversation_step = "module"
  /\ clock > 0
  /\ student_data # None
  /\ language # "en"

(***************************************************************************)
(* C12: in every reachable state at the chat step in which                 *)
(* current_document is set, current_document['module'] is the current      *)
(* selected_module, also after the error panel's 'Back to Welcome'.        *)
(***************************************************************************)
C12_DocumentOfSelection ==
  (conversation_step = "chat" /\ view = "screen" /\ current_document # None)
    => /\ selected_module # None
       /\ Val(current_document).module = Val(selected_module)

\* a transcript of user/assistant pairs: even length, the odd places
\* taken by user messages and the even ones by assistant messages
Paired(msgs) ==
  /\ Len(msgs) % 2 = 0
  /\ \A i \in 1..Len(msgs) :
       msgs[i].role = IF i % 2 = 1 THEN "user" ELSE "assistant"

\* the transcript a completion call belongs to
TranscriptOf(operation) == IF operation = "coursework" THEN messages ELSE ethics_messages

(***************************************************************************)
(* C13: every submitted question appends one user message followed by one  *)
(* assistant message whatever the completion's outcome (answer, empty      *)
(* result, client not constructed, remote exception); in every state both  *)
(* transcripts have even length and alternate user/assistant, starting     *)
(* with user.                                                              *)
(***************************************************************************)
C13_PairedTranscripts ==
  /\ Paired(messages)
  /\ Paired(ethics_messages)
  /\ call # None =>
       LET msgs == TranscriptOf(Val(call).operation)
           n == Len(msgs)
       IN /\ n >= 2
          /\ msgs[n - 1].role = "user"
          /\ msgs[n - 1].content = raw(Val(call).question)
          /\ msgs[n].role = "assistant"
          /\ msgs[n].content = Val(call).response
          /\ msgs[n - 1].timestamp < msgs[n].timestamp
          /\ \A i \in 1..(n - 2) : msgs[i].timestamp < msgs[n - 1].timestamp

\* a question was submitted to the ethics chat and the remote call raised
C13_Witness ==
  /\ last = "ethics_chat_input"
  /\ call # None
  /\ Val(call).client
  /\ Val(call).remote = "exception"
  /\ Val(call).response.key = "response_error"
  /\ Len(ethics_messages) = 2

(***************************************************************************)
(* C14: language is always one of 'en', 'ar', 'fr', 'es'; it changes only  *)
(* through the language selector and is left unchanged by every reset:     *)
(* the sidebar's 'Start Over', the chat's 'New session' and the error      *)
(* panel's 'Start Over'.                                                   *)
(***************************************************************************)
C14_LanguageKept ==
  /\ [](language \in Languages)
  /\ [][language' # language => last' = "language_selector"]_vars

(***************************************************************************)
(* C15: with two sessions of one process interleaving their re-renders,    *)
(* no session's output depends on the other's state: a string translated   *)
(* for a session is in that session's own language.                        *)
(***************************************************************************)
C15_OwnLanguage == about.language = about.session_language

\* the question is empty after trimming
BlankQuestion(question) == \A k \in 1..Len(question) : question[k] = " "

\* the message of the first precondition of a completion call that fails,
\* None when all three hold
FirstFailure(c) ==
  IF ~c.client THEN Some("api_key_missing")
  ELSE IF c.document_content = <<>> THEN Some("no_docs_error")
  ELSE IF BlankQuestion(c.question)
    THEN Some(IF c.operation = "coursework" THEN "enter_question"
                                            ELSE "enter_ethics_question")
  ELSE None

(***************************************************************************)
(* C16: the completion operations (coursework and ethics) check their      *)
(* preconditions in order and return at the first that fails, whatever     *)
(* the remote service would answer: no client gives the 'not configured'   *)
(* message; otherwise an empty document gives the 'no document' message;   *)
(* otherwise a question empty after trimming gives the 'empty question'    *)
(* message; only when all three hold is the result that of the remote      *)
(* call.                                                                   *)
(***************************************************************************)
C16_PreconditionOrder ==
  call # None =>
    LET c == Val(call)
    IN IF FirstFailure(c) # None
         THEN c.response = [key |-> Val(FirstFailure(c)), translated |-> TRUE, arg |-> <<>>]
         ELSE c.response.key \in
                {"answer", "ethics answer", "no_response_generated", "response_error"}

\* a call with a client, without a document and with a blank question,
\* the remote service failing: the second precondition is the first to fail
C16_Witness ==
  /\ call # None
  /\ Val(call).client
  /\ Val(call).document_content = <<>>
  /\ Val(call).question = <<" ", " ">>
  /\ Val(call).remote = "exception"
  /\ Val(call).response.key = "no_docs_error"

\* the assistant messages of the transcript shown at the current step
\* that have no entry in the audio cache d
Unvoiced(msgs, d) ==
  {i \in 1..Len(msgs) : msgs[i].role = "assistant" /\ message_key(msgs, i) \notin keys(d)}

\* a step whose completion call reached the remote service, which failed
C17_CompletionFailed ==
  /\ call' # None
  /\ FirstFailure(Val(call')) = None
  /\ Val(call').remote = "exception"

\* a render of the coursework chat after which an assistant message has
\* no audio: the speech client returned None for it
C17_SpeechFailed ==
  /\ last' = "run" /\ view' = "screen"
  /\ conversation_step = "chat" /\ current_document' # None
  /\ Unvoiced(messages', audio_responses') # {}

(***************************************************************************)
(* C17: no remote failure crosses the client boundary as an exception.     *)
(* A completion whose remote call fails returns the error string that      *)
(* embeds the failure text, and the handler goes on to its rerun; a        *)
(* speech call that fails returns None and the chat is rendered without    *)
(* that audio.  Either way conversation_step, the authentication fields    *)
(* and the selection fields are left unchanged.                            *)
(***************************************************************************)
C17_FailuresContained ==
  [][/\ C17_CompletionFailed =>
          /\ Val(call').response = t("response_error", <<"exception">>)
          /\ (IF Val(call').operation = "coursework" THEN messages' ELSE ethics_messages') =
               TranscriptOf(Val(call').operation) \o
                 << [role |-> "user", content |-> raw(Val(call').question),
                     timestamp |-> clock + 1],
                    [role |-> "assistant", content |-> Val(call').response,
                     timestamp |-> clock + 2] >>
          /\ view' = "pending"
          /\ UNCHANGED <<conversation_step, auth_vars, selection_vars, authenticated,
                         ethics_document>>
     /\ C17_SpeechFailed =>
          /\ audio_responses \subseteq audio_responses'
          /\ UNCHANGED <<conversation_step, auth_vars, selected_module,
                         selected_coursework, authenticated, messages>>]_vars

\* the chat is shown with an answer that is the error string of a failed
\* completion and for which the speech call failed as well
C17_Witness ==
  /\ last = "run" /\ view = "screen" /\ conversation_step = "chat"
  /\ current_document # None
  /\ Len(messages) = 2
  /\ messages[2].content = t("response_error", <<"exception">>)
  /\ audio_responses = {}
  /\ student_data # None

(***************************************************************************)
(* C18: when the API key is absent the application still starts and the    *)
(* conversation flow stays usable: the session is shown the screen of its  *)
(* step (welcome first, then student_id, code, module, coursework) or the  *)
(* error panel of a failed render, never the configuration error alone.    *)
(***************************************************************************)
C18_UsableWithoutKey ==
  ~api_key => view \in {"screen", "pending", "error"}

\* a render of the chat step that tried to load the selected module's
\* document and got no content
C19_LoadFailed ==
  /\ last' = "run" /\ view' # "error"
  /\ conversation_step = "chat"
  /\ current_document = None /\ selected_module # None
  /\ current_document' = None \/ Val(current_document').content = <<>>

\* the chat step is shown without a document
C19_NoDocument ==
  /\ conversation_step = "chat" /\ view = "screen"
  /\ current_document = None

(***************************************************************************)
(* C19: if the selected module's document cannot be loaded on entry to     *)
(* the chat, conversation_step stays 'chat', current_document stays unset  *)
(* and the transcript is unchanged; no question can be submitted; the      *)
(* load is attempted again on each later render; the session can still     *)
(* leave the chat, the sidebar's reset to welcome being available.         *)
(***************************************************************************)
C19_LoadFailure ==
  /\ [][C19_LoadFailed =>
          /\ view' = "screen"
          /\ current_document' = None
          /\ UNCHANGED <<conversation_step, messages, audio_responses, selected_module>>]_vars
  /\ [](C19_NoDocument =>
          /\ selected_module # None
          /\ \A prompt \in PromptTexts, client \in BOOLEAN, remote \in RemoteOutcomes,
                audio \in AudioOutcomes : ~ENABLED chat_input(prompt, client, remote, audio)
          /\ ENABLED (run(FALSE, Files, TRUE, <<>>) /\ current_document' # None)
          /\ ENABLED (sidebar_start_over /\ conversation_step' = "welcome"))

\* the chat of a logged-in student was rendered without a readable
\* document, the transcript being empty
C19_Witness ==
  /\ C19_NoDocument
  /\ last = "run"
  /\ selected_module # None
  /\ student_data # None
  /\ messages = <<>>

\* every entry of the cache d is an entry of the cache e
Kept(d, e) == \A entry \in d : entry \in e

\* no key has two entries
WriteOnce(d) == \A a \in d, b \in d : a.key = b.key => a = b

\* C20 as stated: once bytes are stored under a key, the key keeps exactly
\* those bytes in every later state; no step overwrites or removes an entry
C20_Original ==
  [][/\ Kept(audio_responses, audio_responses')
     /\ Kept(ethics_audio_responses, ethics_audio_responses')]_vars

(***************************************************************************)
(* C20 (amended): an audio cache is write-once per key: a step that        *)
(* leaves a cache non-empty keeps every entry with exactly its bytes, and  *)
(* no key ever has two entries.  Entries are removed only all together,    *)
(* by the steps that empty the cache: reset_conversation ('Start Over',    *)
(* 'New session'), clear_chat and the error panel's 'Start Over' for the   *)
(* coursework cache; the ethics chat's 'New session' and 'Clear chat' and  *)
(* the error panel's 'Start Over' for the ethics cache.                    *)
(***************************************************************************)
C20_WriteOnce ==
  /\ [](WriteOnce(audio_responses) /\ WriteOnce(ethics_audio_responses))
  /\ [][/\ Kept(audio_responses, audio_responses')
           \/ /\ audio_responses' = {}
              /\ last' \in {"sidebar_start_over", "new_session_btn", "sidebar_clear_chat",
                            "screen_error_start_over"}
        /\ Kept(ethics_audio_responses, ethics_audio_responses')
           \/ /\ ethics_audio_responses' = {}
              /\ last' \in {"ethics_new_session", "ethics_clear_chat",
                            "screen_error_start_over"}]_vars

\* the chat is shown after a render, the cache holding the recording of
\* its one answer
C20_Witness ==
  /\ last = "run" /\ view = "screen" /\ conversation_step = "chat"
  /\ Len(messages) = 2
  /\ audio_responses = {[key |-> message_key(messages, 2), audio |-> "mp3"]}

\* the constituents of an aggregate selection that yield text, in roster order
Loaded(l) == SelectSeq(l.module_data.all_pdfs, LAMBDA pdf : pdf.pdf_file \in l.readable)

\* the sum of a metadata field over a sequence of constituents
RECURSIVE SumOver(_, _)
SumOver(pdfs, field) ==
  IF pdfs = <<>> THEN 0
  ELSE read_document(Head(pdfs).pdf_file)[field] + SumOver(Tail(pdfs), field)

(***************************************************************************)
(* C21: for an 'all documents' selection (pdf_file = 'multiple') the load  *)
(* succeeds iff at least one constituent yields text; the combined text    *)
(* is, in roster order, a banner naming the document followed by its text  *)
(* for exactly the constituents that loaded, the others being skipped;     *)
(* 'loaded_files' lists exactly the loaded constituents, 'file_count' is   *)
(* their number and the page, word and size totals are the sums over them. *)
(***************************************************************************)
C21_AggregateLoad ==
  (load # None /\ Val(load).module_data.pdf_file = "multiple") =>
    LET l == Val(load)
        got == Loaded(l)
    IN /\ (l.content # <<>>) <=> (got # <<>>)
       /\ (current_document # None) <=> (got # <<>>)
       /\ Len(l.content) = 2 * Len(got)
       /\ \A k \in 1..Len(got) :
            /\ l.content[2 * k - 1] = [kind |-> "banner", file |-> got[k].pdf_file]
            /\ l.content[2 * k] = [kind |-> "text", file |-> got[k].pdf_file]
       /\ l.metadata.loaded_files = [k \in 1..Len(got) |-> got[k].pdf_file]
       /\ l.metadata.file_count = Len(got)
       /\ l.metadata.total_pages = SumOver(got, "total_pages")
       /\ l.metadata.total_words = SumOver(got, "word_count")
       /\ l.metadata.total_size = SumOver(got, "file_size")

\* both documents of a module were selected and only the second one
\* yielded text
C21_Witness ==
  /\ load # None
  /\ Val(load).module_data.pdf_file = "multiple"
  /\ Len(Val(load).module_data.all_pdfs) = 2
  /\ Val(load).readable = {Val(load).module_data.all_pdfs[2].pdf_file}
  /\ current_document # None
  /\ Val(current_document).metadata.file_count = 1

(***************************************************************************)
(* The roster of the process: this session at the welcome and student_id   *)
(* steps with its resets and the wipe of the error panel, the runs of      *)
(* other sessions and the first runs of new ones.                          *)
(***************************************************************************)
NextRoster ==
  \/ \E path \in {"coursework", "ethics"} : welcome_btn(path)
  \/ student_id_back
  \/ student_id_next(<<"a">>)
  \/ code_back
  \/ sidebar_start_over
  \/ \E lang \in Languages : language_selector(lang)
  \/ screen_error_start_over
  \/ screen_error_back_to_welcome
  \/ \E raised \in BOOLEAN : run(raised, {}, TRUE, <<>>)
  \/ other_run
  \/ other_first_run

SpecRoster == Init /\ [][NextRoster]_vars

\* C22: the roster file is read at most once per process: every call of
\* load_student_database, from this session after a reset or a wipe of its
\* whole session state or from the first run of another session, returns
\* the result of the first call, equal in every field, and does not read
\* the file again, whatever the file holds by then.
C22_RosterReadOnce ==
  /\ file_reads <= 1
  /\ roster_load # None =>
       /\ Val(roster_load).cached
       /\ Val(roster_load).result = student_database
       /\ roster_cache = Some(1)

\* a run of this session after the error panel wiped its session state
\* called load_student_database, and the file has been read once
C22_Witness ==
  /\ last = "run" /\ roster_load # None /\ database_loaded
  /\ failures > 0
  /\ file_reads = 1

(***************************************************************************)
(* audio_manager.py: the text dispatched to the remote speech call.        *)
(* Texts are sequences of characters; the substitutions of                 *)
(* clean_text_for_tts are computed as re.sub computes them, match by       *)
(* match from the left.                                                    *)
(***************************************************************************)
MaxTextLen == 3

\* the characters re's \s matches among those of the texts
Whitespace == {" ", "\n"}

\* d is at position i of text
At(txt, i, d) == i + Len(d) - 1 <= Len(txt) /\ SubSeq(txt, i, i + Len(d) - 1) = d

\* (.*?) followed by the closing marker d, from position j: the first
\* position of d that no line break precedes, 0 when there is none
RECURSIVE find_close(_, _, _)
find_close(txt, j, d) ==
  IF j + Len(d) - 1 > Len(txt) THEN 0
  ELSE IF At(txt, j, d) THEN j
  ELSE IF txt[j] = "\n" THEN 0
  ELSE find_close(txt, j + 1, d)

\* re.sub(d(.*?)d, \1, text), scanning from position i
RECURSIVE sub_markers(_, _, _)
sub_markers(txt, i, d) ==
  IF i > Len(txt) THEN <<>>
  ELSE LET close == IF At(txt, i, d) THEN find_close(txt, i + Len(d), d) ELSE 0
       IN IF close # 0
            THEN SubSeq(txt, i + Len(d), close - 1) \o sub_markers(txt, close + Len(d), d)
            ELSE <<txt[i]>> \o sub_markers(txt, i + 1, d)

\* the end of a run of characters of set that starts at position i
RECURSIVE run_end(_, _, _)
run_end(txt, i, set) ==
  IF i <= Len(txt) /\ txt[i] \in set THEN run_end(txt, i + 1, set) ELSE i

\* re.sub(^#+\s*, '', text, flags=re.MULTILINE), scanning from position i:
\* a run of '#' is removed, with the whitespace after it, only where a line
\* starts
RECURSIVE sub_headers(_, _)
sub_headers(txt, i) ==
  IF i > Len(txt) THEN <<>>
  ELSE IF (i = 1 \/ txt[i - 1] = "\n") /\ txt[i] = "#"
    THEN sub_headers(txt, run_end(txt, run_end(txt, i, {"#"}), Whitespace))
    ELSE <<txt[i]>> \o sub_headers(txt, i + 1)

\* re.sub(set+, by, text), scanning from position i
RECURSIVE sub_runs(_, _, _, _)
sub_runs(txt, i, set, by) ==
  IF i > Len(txt) THEN <<>>
  ELSE IF txt[i] \in set
    THEN by \o sub_runs(txt, run_end(txt, i, set), set, by)
    ELSE <<txt[i]>> \o sub_runs(txt, i + 1, set, by)

\* the three substitutions of the bold and italic markers
sub_emphasis(txt) ==
  sub_markers(sub_markers(sub_markers(txt, 1, <<"*", "*">>), 1, <<"*">>), 1, <<"_">>)

\* AudioManager.clean_text_for_tts.  The texts hold no backtick, bracket or
\* emoji, so the substitutions of code, links and emoji leave them as they
\* are.
clean_text_for_tts(txt) ==
  IF txt = <<>> THEN <<>>
  ELSE LET unmarked == sub_headers(sub_emphasis(txt), 1)
           spaced == sub_runs(sub_runs(unmarked, 1, {"\n"}, <<".", " ">>), 1, Whitespace, <<" ">>)
           stripped == strip(spaced)
       IN IF stripped # <<>> /\ stripped[Len(stripped)] \notin {".", "!", "?"}
            THEN Append(stripped, ".")
            ELSE stripped

\* AudioManager.generate_audio_response up to the remote call: nothing is
\* dispatched without a client or for a blank text; otherwise the cleaned
\* text is the input of the remote call
generate_audio_response(client, txt) ==
  IF ~client THEN None
  ELSE IF \A i \in 1..Len(txt) : txt[i] \in Whitespace THEN None
  ELSE Some(clean_text_for_tts(txt))

TextChars == {"*", "_", "#", "B", " ", "\n"}

\* the text of Scenario E: **Bold** _text_ #Heading
ScenarioE ==
  <<"*", "*", "B", "o", "l", "d", "*", "*", " ", "_", "t", "e", "x", "t", "_", " ",
    "#", "H", "e", "a", "d", "i", "n", "g">>

TextInputs == StringsUpTo(TextChars, MaxTextLen) \cup {ScenarioE}

synthesize(client, txt) ==
  /\ speech' = Some([client |-> client, text |-> txt,
                     input |-> generate_audio_response(client, txt)])
  /\ last' = "synthesize"
  /\ UNCHANGED <<conversation_step, auth_vars, selection_vars, chat_vars, ethics_vars,
                 error_vars, language, clock, failures, view, displayed_error,
                 validation, authenticated, call, api_key, current_language,
                 other_language, about, load, database_loaded, roster_cache,
                 file_reads, roster_load, lookup,
                 audio_enabled, synthesized>>

(***************************************************************************)
(* The speech client on its own: it is called with every text of bounded   *)
(* length over the marker characters, a letter, the space and the line     *)
(* break, and with the text of Scenario E, with and without a client.      *)
(***************************************************************************)
NextSpeech ==
  \E client \in BOOLEAN, txt \in TextInputs : synthesize(client, txt)

SpecSpeech == Init /\ [][NextSpeech]_vars

Markers == {"*", "_", "#"}

\* C23: the text that the speech client sends to the remote call has its
\* markdown markers stripped: for the text **Bold** _text_ #Heading the
\* dispatched text holds no '*', no '_' and no '#'.
C23_MarkersStripped ==
  (speech # None /\ Val(speech).text = ScenarioE /\ Val(speech).input # None) =>
    \A i \in 1..Len(Val(Val(speech).input)) : Val(Val(speech).input)[i] \notin Markers

(***************************************************************************)
(* localization.py: LanguageManager.get_text.  A string is a sequence;     *)
(* the entry of a key in the table of a language is the pair of the two.   *)
(* The built-in tables hold every key of the English table in every        *)
(* language, and load_translations merges the entries of a file            *)
(* translations/<code>.json into the table of its language, so a table     *)
(* may lack a key that the English table holds.                            *)
(***************************************************************************)
MaxMissing == 1

EnglishKeys == {"welcome_title", "response_error"}

\* the entries a non-English table may lack
MissingChoices ==
  {m \in SUBSET ((Languages \ {"en"}) \X EnglishKeys) : Cardinality(m) <= MaxMissing}

\* LanguageManager.translations: the tables, those of the languages other
\* than English without the entries of missing
translations(missing) ==
  [lang \in Languages |->
     [key \in {k \in EnglishKeys : <<lang, k>> \notin missing} |-> <<lang, key>>]]

\* the default argument: none, the empty string, a string
Defaults == {None, Some(<<>>), Some(<<"default">>)}

\* dict.get(key)
get(table, key) == IF key \in DOMAIN table THEN Some(table[key]) ELSE None

\* faulty variant: a key the active table lacks is not looked up in the
\* English table
get_text_without_english(tables, lang, key, default) ==
  LET found == get(tables[lang], key)
  IN IF found # None THEN Val(found)
     ELSE IF default # None THEN Val(default)
     ELSE <<key>>

\* LanguageManager.get_text of a call without format arguments: the entry
\* of the active table, else the default argument when one is given, else
\* the entry of the English table, else the key
get_text(tables, lang, key, default) ==
  LET found == get(tables[lang], key)
      or_default == IF found = None /\ default # None THEN default ELSE found
      or_english == IF or_default = None /\ lang # "en"
                      THEN IF get(tables["en"], key) # None
                             THEN get(tables["en"], key) ELSE Some(<<key>>)
                      ELSE or_default
  IN IF or_english = None THEN <<key>> ELSE Val(or_english)

translate(missing, lang, key, default) ==
  /\ lookup' = Some([tables |-> translations(missing), language |-> lang, key |-> key,
                     default |-> default,
                     text |-> get_text(translations(missing), lang, key, default)])
  /\ last' = "translate"
  /\ UNCHANGED <<conversation_step, auth_vars, selection_vars, chat_vars, ethics_vars,
                 error_vars, language, clock, failures, view, displayed_error,
                 validation, authenticated, call, api_key, current_language,
                 other_language, about, load, database_loaded, roster_cache,
                 file_reads, roster_load, speech,
                 audio_enabled, synthesized>>

(***************************************************************************)
(* The translation lookup on its own: every key of the English table is    *)
(* looked up in every language, with and without a default argument, in    *)
(* the full tables and in tables that lack an entry.                       *)
(***************************************************************************)
NextLookup ==
  \E missing \in MissingChoices, lang \in Languages, key \in EnglishKeys,
     default \in Defaults :
    translate(missing, lang, key, default)

SpecLookup == Init /\ [][NextLookup]_vars

\* the key of the lookup is in the table of the active language
Present == Val(lookup).key \in DOMAIN Val(lookup).tables[Val(lookup).language]

\* the statement as given, refuted by a call with a default argument for a
\* key the active table lacks: it returns the default, which may be empty
C24_Original ==
  lookup # None =>
    /\ Val(lookup).text # <<>>
    /\ Present => Val(lookup).text = <<Val(lookup).language, Val(lookup).key>>
    /\ ~Present => Val(lookup).text = <<"en", Val(lookup).key>>

\* C24: for every supported language and every key of the English table
\* the lookup returns the entry of the active language, a non-empty string,
\* when its table holds the key, with or without a default argument; when
\* the table lacks the key, a call without default argument returns the
\* English string and a call with a default argument returns the default.
C24_Lookup ==
  lookup # None =>
    LET l == Val(lookup)
    IN /\ Present => l.text = <<l.language, l.key>> /\ l.text # <<>>
       /\ (~Present /\ l.default = None) => l.text = <<"en", l.key>>
       /\ (~Present /\ l.default # None) => l.text = Val(l.default)

\* a key the French table lacks was looked up without default argument and
\* the English string came back
C24_Witness ==
  /\ lookup # None /\ ~Present
  /\ Val(lookup).language = "fr" /\ Val(lookup).default = None
  /\ Val(lookup).text = <<"en", Val(lookup).key>>

(***************************************************************************)
(* C25: the sidebar's 'Clear Chat' is offered only at the chat step; it    *)
(* empties the coursework transcript and its audio cache and leaves        *)
(* conversation_step, student_id, student_data, selected_module,           *)
(* selected_coursework, current_document and language unchanged.           *)
(***************************************************************************)
C25_ClearChat ==
  /\ [](ENABLED sidebar_clear_chat => conversation_step = "chat")
  /\ [][sidebar_clear_chat =>
          /\ conversation_step = "chat"
          /\ messages' = <<>>
          /\ audio_responses' = {}
          /\ UNCHANGED <<conversation_step, student_id, student_data, selected_module,
                         selected_coursework, current_document, language>>]_vars

\* 'Clear Chat' was pressed after a question had been asked, with a document
\* loaded, in a language other than the default one
C25_Witness ==
  /\ last = "sidebar_clear_chat"
  /\ conversation_step = "chat"
  /\ messages = <<>> /\ audio_responses = {}
  /\ clock > 0
  /\ current_document # None
  /\ language # "en"

(***************************************************************************)
(* C26: in every reachable state in which student_id and student_data are  *)
(* both set, student_data is the roster record of that student_id, also    *)
(* after the way back from module over code to student_id and the entry of *)
(* another ID.                                                             *)
(***************************************************************************)
C26_OwnRecord ==
  (student_id # None /\ student_data # None) =>
    /\ Val(student_id) \in RosterIds
    /\ student_data = Some(student_database.students[Val(student_id)])

(***************************************************************************)
(* C27: every field that the screen of a step reads is set whenever that   *)
(* step is current: selected_path at student_id; student_id at code;       *)
(* student_data at module; selected_module at coursework; selected_module, *)
(* selected_coursework and student_data at chat.                           *)
(***************************************************************************)
C27_FieldsSet ==
  /\ conversation_step = "student_id" => selected_path # None
  /\ conversation_step = "code" => student_id # None
  /\ conversation_step = "module" => student_data # None
  /\ conversation_step = "coursework" => selected_module # None
  /\ conversation_step = "chat" =>
       selected_module # None /\ selected_coursework # None /\ student_data # None

\* the chat was rendered with its three fields set in a session that had
\* been through the error panel
C27_Witness ==
  /\ conversation_step = "chat" /\ view = "screen" /\ last = "run"
  /\ failures > 0
  /\ selected_module # None /\ selected_coursework # None /\ student_data # None

\* the agreement of path and step
PathOfStep ==
  /\ conversation_step \in {"module", "coursework", "chat"} =>
       selected_path = Some("coursework")
  /\ conversation_step = "ethics_chat" => selected_path = Some("ethics")
  /\ conversation_step \in {"student_id", "code"} => selected_path # None

(***************************************************************************)
(* C28: the chosen path and the step agree in every reachable state:       *)
(* module, coursework and chat on the coursework path, ethics_chat on the  *)
(* ethics path, a path set at student_id and code; and selected_path       *)
(* changes only at the welcome step or by a reset ('Start Over' of the     *)
(* sidebar, 'New session' of the chat, 'Start Over' of the error panel).   *)
(***************************************************************************)
C28_PathAndStep ==
  /\ []PathOfStep
  /\ [][selected_path' # selected_path =>
          \/ conversation_step = "welcome"
          \/ sidebar_start_over \/ new_session_btn \/ screen_error_start_over]_vars

\* the ethics chat was reached by a credential check on the ethics path in
\* a session that had been through the error panel
C28_Witness ==
  /\ conversation_step = "ethics_chat" /\ selected_path = Some("ethics")
  /\ last = "code_verify"
  /\ failures > 0

(***************************************************************************)
(* C29: for an aggregate selection every document that the system prompt   *)
(* of a completion names as a source is one whose text was loaded into     *)
(* current_document, that is, one of loaded_files; a constituent that the  *)
(* load skipped is not named.                                              *)
(***************************************************************************)
C29_NamedAreLoaded ==
  (/\ last = "chat_input" /\ call # None
   /\ Val(call).document_info # None
   /\ Val(current_document).module.pdf_file = "multiple") =>
    LET named == Val(Val(call).document_info)
        loaded == Val(current_document).metadata.loaded_files
    IN \A k \in 1..Len(named) : \E j \in 1..Len(loaded) : loaded[j] = named[k]

\* the coursework chat has been rendered with its messages by this run
ChatRendered ==
  /\ last = "run" /\ view = "screen"
  /\ conversation_step = "chat" /\ current_document # None

(***************************************************************************)
(* C30: on a render of the coursework chat the speech client is called for *)
(* an assistant message if and only if audio is enabled, the speech client *)
(* is available and the audio cache holds no entry under the key of the    *)
(* message: a message with an entry, pre-generated ones included, causes   *)
(* no further call, and a message whose call returned nothing is tried     *)
(* again at every later render.                                            *)
(***************************************************************************)
C30_SynthesisOnRender ==
  /\ [][(/\ last' = "run" /\ view' = "screen"
         /\ conversation_step = "chat" /\ current_document' # None) =>
          \A i \in Assistant(messages) :
            message_key(messages, i) \in synthesized' <=>
              /\ audio_enabled'
              /\ is_available
              /\ message_key(messages, i) \notin keys(audio_responses)]_vars
  /\ [][(/\ ChatRendered
         /\ last' = "run" /\ view' = "screen" /\ audio_enabled'
         /\ conversation_step' = "chat" /\ current_document' # None) =>
          \A i \in Assistant(messages) :
            message_key(messages, i) \notin keys(audio_responses) =>
              message_key(messages, i) \in synthesized']_vars

\* a render with audio enabled called the speech client for a message
\* without an entry, and the call returned nothing
C30_Witness ==
  /\ ChatRendered /\ audio_enabled
  /\ \E i \in Assistant(messages) :
       /\ message_key(messages, i) \in synthesized
       /\ message_key(messages, i) \notin keys(audio_responses)

=============================================================================
